---- MODULE Spec2Model ----
(***************************************************************************)
(* Model of src/app/api/getscript/route.ts: the GET handler of the         *)
(* /getscript route and the transcript pipeline behind it                  *)
(* (acquisition -> transcription -> cleanup -> assembly), in both the      *)
(* file-based and the buffer-based variant of processYouTubeTranscript.    *)
(* Strings the code inspects character by character (the url, segment      *)
(* text) are sequences of one-character strings.                           *)
(***************************************************************************)
EXTENDS Integers, Sequences, FiniteSets, TLC

(***************************************************************************)
(* Bounds of the model.                                                    *)
(***************************************************************************)
MaxSegs == 2
MaxTime == 2
MaxChunks == 1
MaxAILen == 2

(***************************************************************************)
(* Characters and the JavaScript string operations the code relies on.     *)
(***************************************************************************)
LowerLetters ==
  <<"a","b","c","d","e","f","g","h","i","j","k","l","m",
    "n","o","p","q","r","s","t","u","v","w","x","y","z">>

UpperLetters ==
  <<"A","B","C","D","E","F","G","H","I","J","K","L","M",
    "N","O","P","Q","R","S","T","U","V","W","X","Y","Z">>

Digits == {"0","1","2","3","4","5","6","7","8","9"}

Range(s) == {s[i] : i \in DOMAIN s}

\* \w of a JavaScript regular expression
IsWordChar(c) == c \in Range(LowerLetters) \cup Range(UpperLetters) \cup Digits \cup {"_"}

\* \s of a JavaScript regular expression (the characters the model uses)
IsSpace(c) == c \in {" ", "\t", "\n"}

\* [,.!?]
IsPunct(c) == c \in {",", ".", "!", "?"}

toLowerCaseChar(c) ==
  IF \E i \in DOMAIN UpperLetters : UpperLetters[i] = c
  THEN LowerLetters[CHOOSE i \in DOMAIN UpperLetters : UpperLetters[i] = c]
  ELSE c

toUpperCaseChar(c) ==
  IF \E i \in DOMAIN LowerLetters : LowerLetters[i] = c
  THEN UpperLetters[CHOOSE i \in DOMAIN LowerLetters : LowerLetters[i] = c]
  ELSE c

toLowerCase(s) == [i \in DOMAIN s |-> toLowerCaseChar(s[i])]

\* s.slice(from) with 1-based from
SliceFrom(s, from) == IF from > Len(s) THEN <<>> ELSE SubSeq(s, from, Len(s))

\* does p occur in s at position i, compared case-insensitively (flag i)
MatchesAt(s, i, p) ==
  /\ i + Len(p) - 1 <= Len(s)
  /\ \A k \in 1..Len(p) : toLowerCaseChar(s[i + k - 1]) = toLowerCaseChar(p[k])

\* \b between position i-1 and i of s (i in 1..Len(s)+1)
WordBoundaryAt(s, i) ==
  LET before == i > 1 /\ IsWordChar(s[i - 1])
      after  == i <= Len(s) /\ IsWordChar(s[i])
  IN  before # after

(***************************************************************************)
(* The filler list and the per-segment steps of simpleCleanTranscript.     *)
(***************************************************************************)
fillerWords ==
  << <<"u","m">>, <<"u","h">>, <<"a","h">>, <<"e","r">>,
     <<"l","i","k","e">>, <<"y","o","u"," ","k","n","o","w">>,
     <<"s","o">>, <<"w","e","l","l">>,
     <<"a","c","t","u","a","l","l","y">>,
     <<"b","a","s","i","c","a","l","l","y">>,
     <<"l","i","t","e","r","a","l","l","y">>,
     <<"r","i","g","h","t">>, <<"o","k","a","y">>,
     <<"a","l","r","i","g","h","t">>,
     <<"k","i","n","d"," ","o","f">>, <<"s","o","r","t"," ","o","f">>,
     <<"i"," ","m","e","a","n">>, <<"y","o","u"," ","s","e","e">>,
     <<"l","e","t"," ","m","e"," ","s","e","e">> >>

\* cleanedText.replace(new RegExp(`\\b${filler}\\b`, 'gi'), ''), scanning
\* from position i: matches are taken left to right and do not overlap
RECURSIVE RemoveFillerFrom(_, _, _)
RemoveFillerFrom(s, i, filler) ==
  IF i > Len(s) THEN <<>>
  ELSE IF /\ MatchesAt(s, i, filler)
          /\ WordBoundaryAt(s, i)
          /\ WordBoundaryAt(s, i + Len(filler))
       THEN RemoveFillerFrom(s, i + Len(filler), filler)
       ELSE <<s[i]>> \o RemoveFillerFrom(s, i + 1, filler)

\* fillerWords.forEach(...), fillers k..19 in list order
RECURSIVE RemoveFillers(_, _)
RemoveFillers(s, k) ==
  IF k > Len(fillerWords) THEN s
  ELSE RemoveFillers(RemoveFillerFrom(s, 1, fillerWords[k]), k + 1)

\* .replace(/\s+/g, ' ')
RECURSIVE CollapseSpaces(_)
CollapseSpaces(s) ==
  IF s = <<>> THEN <<>>
  ELSE IF IsSpace(s[1])
       THEN IF Len(s) > 1 /\ IsSpace(s[2])
            THEN CollapseSpaces(Tail(s))
            ELSE <<" ">> \o CollapseSpaces(Tail(s))
       ELSE <<s[1]>> \o CollapseSpaces(Tail(s))

\* first position at or after i of s that is not whitespace (Len(s)+1 if none)
RECURSIVE SkipSpaces(_, _)
SkipSpaces(s, i) ==
  IF i <= Len(s) /\ IsSpace(s[i]) THEN SkipSpaces(s, i + 1) ELSE i

\* .replace(/\s+([,.!?])/g, '$1')
RECURSIVE RemoveSpaceBeforePunct(_, _)
RemoveSpaceBeforePunct(s, i) ==
  IF i > Len(s) THEN <<>>
  ELSE LET j == SkipSpaces(s, i)
       IN  IF j > i /\ j <= Len(s) /\ IsPunct(s[j])
           THEN <<s[j]>> \o RemoveSpaceBeforePunct(s, j + 1)
           ELSE <<s[i]>> \o RemoveSpaceBeforePunct(s, i + 1)

\* .trim()
RECURSIVE TrimEnd(_)
TrimEnd(s) ==
  IF s # <<>> /\ IsSpace(s[Len(s)]) THEN TrimEnd(SubSeq(s, 1, Len(s) - 1)) ELSE s

trim(s) == TrimEnd(SliceFrom(s, SkipSpaces(s, 1)))

\* cleanedText.charAt(0).toUpperCase() + cleanedText.slice(1)
Capitalize(s) == IF s = <<>> THEN <<>> ELSE <<toUpperCaseChar(s[1])>> \o Tail(s)

\* the body of the map callback of simpleCleanTranscript, on one text
simpleCleanText(text) ==
  Capitalize(trim(RemoveSpaceBeforePunct(
      CollapseSpaces(RemoveFillers(toLowerCase(text), 1)), 1)))

(***************************************************************************)
(* The url parameter and the YouTube URL test of the GET handler.          *)
(***************************************************************************)
\* does the literal p occur in s at position i (case-sensitive)
StartsWithAt(s, i, p) ==
  /\ i + Len(p) - 1 <= Len(s)
  /\ \A k \in 1..Len(p) : s[i + k - 1] = p[k]

sHttp == <<"h","t","t","p",":","/","/">>
sHttps == <<"h","t","t","p","s",":","/","/">>
sFtp == <<"f","t","p",":","/","/">>
sWww == <<"w","w","w",".">>
sWatch == <<"y","o","u","t","u","b","e",".","c","o","m","/","w","a","t","c","h","?","v","=">>
sEmbed == <<"y","o","u","t","u","b","e",".","c","o","m","/","e","m","b","e","d","/">>
sShort == <<"y","o","u","t","u",".","b","e","/">>
sVimeo == <<"v","i","m","e","o",".","c","o","m","/">>
sNotALink == <<"n","o","t","-","a","-","y","o","u","t","u","b","e","-","l","i","n","k">>

\* the test without the trailing [\w-]+ (a url with no video id passes)
youtubeRegex_NoId(s) ==
  LET i1 == IF StartsWithAt(s, 1, sHttps) THEN 1 + Len(sHttps)
            ELSE IF StartsWithAt(s, 1, sHttp) THEN 1 + Len(sHttp)
            ELSE 1
      i2 == IF StartsWithAt(s, i1, sWww) THEN i1 + Len(sWww) ELSE i1
  IN  \/ StartsWithAt(s, i2, sWatch)
      \/ StartsWithAt(s, i2, sEmbed)
      \/ StartsWithAt(s, i2, sShort)

\* /^(https?:\/\/)?(www\.)?(youtube\.com\/(watch\?v=|embed\/)|youtu\.be\/)[\w-]+/.test(s)
youtubeRegex(s) ==
  LET i1 == IF StartsWithAt(s, 1, sHttps) THEN 1 + Len(sHttps)
            ELSE IF StartsWithAt(s, 1, sHttp) THEN 1 + Len(sHttp)
            ELSE 1
      i2 == IF StartsWithAt(s, i1, sWww) THEN i1 + Len(sWww) ELSE i1
      i3 == IF StartsWithAt(s, i2, sWatch) THEN i2 + Len(sWatch)
            ELSE IF StartsWithAt(s, i2, sEmbed) THEN i2 + Len(sEmbed)
            ELSE IF StartsWithAt(s, i2, sShort) THEN i2 + Len(sShort)
            ELSE 0
  IN  /\ i3 # 0
      /\ i3 <= Len(s)
      /\ (IsWordChar(s[i3]) \/ s[i3] = "-")

\* searchParams.get('url'): null when the parameter is missing
NullUrl == [null |-> TRUE, text |-> <<>>]
Url(s) == [null |-> FALSE, text |-> s]

ValidUrls ==
  { Url(sHttps \o sShort \o <<"a">>),
    Url(sWww \o sWatch \o <<"-","b">>) }

InvalidUrls ==
  { Url(<<>>),
    Url(sNotALink),
    Url(sHttps \o sWatch),
    Url(sHttp \o sVimeo \o <<"a">>),
    Url(sFtp \o sShort \o <<"a">>),
    Url(sShort \o <<"?">>),
    Url(<<" ">> \o sHttps \o sShort \o <<"a">>) }

UrlInputs == {NullUrl} \cup ValidUrls \cup InvalidUrls

\* the two validation tests of GET: 0 when the url passes, else the
\* error message of the 400 response
UrlError(u) ==
  IF u.null \/ u.text = <<>>
  THEN "YouTube URL is required. Use ?url=<youtube_url>"
  ELSE IF ~youtubeRegex(u.text)
       THEN "Invalid YouTube URL format"
       ELSE "ok"

\* the environment test without the GEMINI_API_KEY branch
EnvError_DeepgramOnly(e) ==
  IF ~e.DEEPGRAM_API_KEY
  THEN "DEEPGRAM_API_KEY environment variable is not set"
  ELSE "ok"

\* the two environment tests of GET
EnvError(e) ==
  IF ~e.DEEPGRAM_API_KEY
  THEN "DEEPGRAM_API_KEY environment variable is not set"
  ELSE IF ~e.GEMINI_API_KEY
       THEN "GEMINI_API_KEY environment variable is not set"
       ELSE "ok"

(***************************************************************************)
(* Segments. A field whose JavaScript value is undefined is a field the    *)
(* record does not have.                                                   *)
(***************************************************************************)
tUmHi == <<"U","m",","," ","h","i">>
tSoWorks == <<"s","o"," ","i","t"," ","w","o","r","k","s"," ",".">>
tHi == <<"H","i">>

\* transcripts the speech-recognition service may return for an utterance
RawTexts == {tUmHi, tSoWorks}

\* the cleanedText the text-generation service writes
AIText == tHi

Times == 0..MaxTime

\* utterance lists of the speech-recognition service: ordered by start,
\* non-overlapping, start < end
Utterances == [start : Times, end : Times, transcript : RawTexts]

UtteranceLists ==
  { us \in UNION { [1..n -> Utterances] : n \in 0..MaxSegs } :
       /\ \A i \in DOMAIN us : us[i].start < us[i].end
       /\ \A i \in DOMAIN us : i > 1 => us[i - 1].end <= us[i].start }

\* utterances.map(utterance => ({start, end, text: utterance.transcript}))
ToSegments(us) ==
  [i \in DOMAIN us |->
     [start |-> us[i].start, end |-> us[i].end, text |-> us[i].transcript]]

HasField(o, f) == f \in DOMAIN o

(***************************************************************************)
(* The text of the text-generation response, as a sequence of tokens:      *)
(* brackets, commas, prose and JSON values (null or an object).            *)
(***************************************************************************)
LB == [t |-> "["]
RB == [t |-> "]"]
Comma == [t |-> ","]
Prose == [t |-> "prose"]
Val(v) == [t |-> "value", v |-> v]

JsonNull == [null |-> TRUE]
IsNull(v) == HasField(v, "null")
JsonArray(elems) == [array |-> elems]

\* the elements the service may write: null, or for a raw segment j the
\* object the prompt asks for, the same with other timestamps, without
\* cleanedText, or without start
AIElements(segments) ==
  {JsonNull} \cup
  UNION { LET seg == segments[j]
              full == [id |-> j, start |-> seg.start, end |-> seg.end,
                       originalText |-> seg.text, cleanedText |-> AIText]
          IN  { full,
                [full EXCEPT !.start = (seg.start + 1) % (MaxTime + 1),
                             !.end = (seg.end + 1) % (MaxTime + 1)],
                [f \in DOMAIN full \ {"cleanedText"} |-> full[f]],
                [f \in DOMAIN full \ {"start"} |-> full[f]] }
        : j \in DOMAIN segments }

\* e1, e2, ... with commas between
RECURSIVE CommaList(_)
CommaList(elems) ==
  IF elems = <<>> THEN <<>>
  ELSE IF Len(elems) = 1 THEN <<Val(elems[1])>>
       ELSE <<Val(elems[1]), Comma>> \o CommaList(Tail(elems))

AIArrays(segments) ==
  UNION { [1..n -> AIElements(segments)] : n \in 0..MaxAILen }

\* the texts the service may answer with, for an array of elements
ResponseTexts(elems) ==
  LET arr == <<LB>> \o CommaList(elems) \o <<RB>>
  IN  { arr,
        <<Prose>> \o arr \o <<Prose>>,
        <<Prose>> \o arr \o <<Prose, LB, Prose, RB>>,
        <<LB>> \o arr \o <<RB>>,
        <<LB>> \o CommaList(elems) \o <<Comma, RB>>,
        <<LB>> \o CommaList(elems),
        CommaList(elems) \o <<Prose>> }

\* outcomes of the axios.post to the text-generation service
GeminiOutcomes(segments) ==
  { [kind |-> "error", message |-> m] :
      m \in {"timeout of 80000ms exceeded", "Request failed with status code 429"} }
  \cup { [kind |-> "nocandidates"] }
  \cup { [kind |-> "text", tokens |-> toks] :
           toks \in UNION { ResponseTexts(elems) : elems \in AIArrays(segments) } }

(***************************************************************************)
(* geminiResponse.match(/\[[\s\S]*\]/) and JSON.parse.                     *)
(***************************************************************************)
\* the match: from the first "[" to the last "]" after it; <<>> for no match
jsonMatch(toks) ==
  LET lbs == {i \in DOMAIN toks : toks[i] = LB}
  IN  IF lbs = {} THEN <<>>
      ELSE LET first == CHOOSE i \in lbs : \A k \in lbs : i <= k
               rbs == {i \in DOMAIN toks : toks[i] = RB /\ i > first}
           IN  IF rbs = {} THEN <<>>
               ELSE LET last == CHOOSE i \in rbs : \A k \in rbs : i >= k
                    IN  SubSeq(toks, first, last)

ParseFail == [ok |-> FALSE, next |-> 0, v |-> JsonNull]

\* recursive descent over the tokens from position i: a value is a value
\* token or an array "[" value ("," value)* "]"
RECURSIVE ParseValue(_, _)
RECURSIVE ParseElements(_, _, _)
ParseValue(toks, i) ==
  IF i > Len(toks) THEN ParseFail
  ELSE IF toks[i].t = "value" THEN [ok |-> TRUE, next |-> i + 1, v |-> toks[i].v]
  ELSE IF toks[i] = LB
       THEN IF i + 1 <= Len(toks) /\ toks[i + 1] = RB
            THEN [ok |-> TRUE, next |-> i + 2, v |-> JsonArray(<<>>)]
            ELSE ParseElements(toks, i + 1, <<>>)
  ELSE ParseFail

\* the elements of an array, the next element starting at position i
ParseElements(toks, i, acc) ==
  LET e == ParseValue(toks, i)
  IN  IF ~e.ok \/ e.next > Len(toks) THEN ParseFail
      ELSE IF toks[e.next] = RB
           THEN [ok |-> TRUE, next |-> e.next + 1, v |-> JsonArray(Append(acc, e.v))]
      ELSE IF toks[e.next] = Comma
           THEN ParseElements(toks, e.next + 1, Append(acc, e.v))
      ELSE ParseFail

\* JSON.parse(text): ok only when the whole text is one value
JSONparse(toks) ==
  LET r == ParseValue(toks, 1)
  IN  IF r.ok /\ r.next = Len(toks) + 1 THEN r ELSE ParseFail

(***************************************************************************)
(* cleanTranscriptWithGemini and simpleCleanTranscript.                    *)
(***************************************************************************)
\* segment => ({start: segment.start, end: segment.end,
\*              cleanedText: segment.cleanedText})
PickCleaned(segment) ==
  [f \in DOMAIN segment \cap {"start", "end", "cleanedText"} |-> segment[f]]

\* the catch block: the raw segments with their text as cleanedText
GeminiCatch(segments) ==
  [i \in DOMAIN segments |->
     [start |-> segments[i].start, end |-> segments[i].end,
      cleanedText |-> segments[i].text]]

\* the value the call resolves with and the way it got there; the function
\* has no path on which it rejects
cleanTranscriptWithGemini(segments, outcome) ==
  LET caught == [threw |-> FALSE, tier |-> "catch", value |-> GeminiCatch(segments)]
  IN  IF outcome.kind # "text" THEN caught
      ELSE LET m == jsonMatch(outcome.tokens)
               parsed == JSONparse(m)
           IN  IF m = <<>> \/ ~parsed.ok THEN caught
               ELSE IF \E i \in DOMAIN parsed.v.array : IsNull(parsed.v.array[i])
                    THEN caught
                    ELSE [threw |-> FALSE, tier |-> "ai",
                          value |-> [i \in DOMAIN parsed.v.array |->
                                       PickCleaned(parsed.v.array[i])]]

simpleCleanTranscript(segments) ==
  [i \in DOMAIN segments |->
     [start |-> segments[i].start, end |-> segments[i].end,
      originalText |-> segments[i].text,
      cleanedText |-> simpleCleanText(segments[i].text)]]

(***************************************************************************)
(* The state of one request.                                               *)
(***************************************************************************)
VARIABLES
  variant,          \* "file" (lines 1-322) or "buffer" (lines 323-673)
  url,              \* searchParams.get('url')
  env,              \* process.env: which of the two keys are set
  pc,               \* where the handler is suspended
  calls,            \* the external calls started so far, in order
  chunks,           \* number of 'data' events received
  streamState,      \* the media stream: "none", "open", "ended", "errored", "destroyed", "unhandled"
  timer,            \* the 90 s timer: "unset", "armed", "fired"
  promise,          \* the promise of downloadAudio / downloadAudioToBuffer
  fileExists,       \* fs.existsSync(audioPath)
  audioLen,         \* audioBuffer.length
  transcription,    \* what transcribeWithDeepgram settled with
  segments,         \* the raw segments
  gemini,           \* what the text-generation call settled with
  tier,             \* which return of cleanTranscriptWithGemini / which cleanup ran
  cleanedSegments,  \* the local variable cleanedSegments
  response          \* the NextResponse returned by GET

vars == <<variant, url, env, pc, calls, chunks, streamState, timer, promise,
          fileExists, audioLen, transcription, segments, gemini, tier,
          cleanedSegments, response>>

NoResponse == [status |-> 0]
NoPromise == [state |-> "none", length |-> 0, message |-> ""]

StreamErrors == {"Video unavailable", "Status code: 403"}
TimeoutMessage == "Audio download timeout after 90 seconds"
EmptyBufferMessage == "Downloaded audio buffer is empty"
NoUtterancesMessage == "No utterances detected in the transcript."
NoFileMessage == "ENOENT: no such file or directory"
NoResultsMessage == "Cannot read properties of undefined (reading 'utterances')"
ToFixedMessage == "Cannot read properties of undefined (reading 'toFixed')"

\* error.response?.data?.message || error.message of a failed axios.post
DeepgramErrors == {"timeout of 120000ms exceeded", "Invalid credentials."}

\* what the axios.post to the speech-recognition service settles with
DeepgramOutcomes ==
  { [kind |-> "error", message |-> m] : m \in DeepgramErrors }
  \cup { [kind |-> "noresults"], [kind |-> "noutterances"] }
  \cup { [kind |-> "data", utterances |-> us] : us \in UtteranceLists }

Init ==
  /\ variant \in {"file", "buffer"}
  /\ url \in UrlInputs
  /\ env \in [DEEPGRAM_API_KEY : BOOLEAN, GEMINI_API_KEY : BOOLEAN]
  /\ pc = "start"
  /\ calls = <<>>
  /\ chunks = 0
  /\ streamState = "none"
  /\ timer = "unset"
  /\ promise = NoPromise
  /\ fileExists = FALSE
  /\ audioLen = 0
  /\ transcription = [kind |-> "none"]
  /\ segments = <<>>
  /\ gemini = [kind |-> "none"]
  /\ tier = "none"
  /\ cleanedSegments = <<>>
  /\ response = NoResponse

(***************************************************************************)
(* Results and responses.                                                  *)
(***************************************************************************)
\* the catch block taking the 'Unknown error occurred' branch for every error
FailureResult_Unknown(message) == [success |-> FALSE, error |-> "Unknown error occurred"]

\* the object of the catch block of processYouTubeTranscript (the random
\* requestId of the buffer variant is left out)
FailureResult(message) == [success |-> FALSE, error |-> message]

\* the object processYouTubeTranscript returns on success; audioSize is
\* kept as the byte count it is formatted from, and only the buffer
\* variant has it
SuccessResult(youtubeUrl, segs, cleaned, bytes) ==
  LET data == [videoUrl |-> youtubeUrl,
               cleanedSegments |-> cleaned,
               totalDuration |-> IF Len(segs) > 0 THEN segs[Len(segs)].end ELSE 0,
               segmentCount |-> Len(segs)]
  IN  [success |-> TRUE,
       data |-> IF variant = "buffer"
                THEN [f \in DOMAIN data \cup {"audioSize"} |->
                        IF f = "audioSize" THEN bytes ELSE data[f]]
                ELSE data]

\* GET answering 200 whatever the result
StatusOf_Always200(result) == 200

\* GET, after processYouTubeTranscript returned result
StatusOf(result) == IF result.success THEN 200 ELSE 500

\* the return without the finally block
Return_NoUnlink(result) ==
  /\ response' = [status |-> StatusOf(result), body |-> result]
  /\ pc' = "done"
  /\ fileExists' = fileExists

\* processYouTubeTranscript returns result (in the file variant its finally
\* block unlinks the audio file) and GET answers with it
Return(result) ==
  /\ response' = [status |-> StatusOf(result), body |-> result]
  /\ pc' = "done"
  /\ fileExists' = FALSE

(***************************************************************************)
(* GET up to the first await.                                              *)
(***************************************************************************)
GET ==
  /\ pc = "start"
  /\ IF UrlError(url) # "ok"
     THEN /\ response' = [status |-> 400,
                          body |-> [success |-> FALSE, error |-> UrlError(url)]]
          /\ pc' = "done"
          /\ UNCHANGED <<calls, streamState, timer, promise>>
     ELSE IF EnvError(env) # "ok"
     THEN /\ response' = [status |-> 500,
                          body |-> [success |-> FALSE, error |-> EnvError(env)]]
          /\ pc' = "done"
          /\ UNCHANGED <<calls, streamState, timer, promise>>
     ELSE \* processYouTubeTranscript starts the download and awaits it
          /\ pc' = "download"
          /\ calls' = Append(calls, "ytdl")
          /\ streamState' = "open"
          /\ timer' = IF variant = "buffer" THEN "armed" ELSE "unset"
          /\ promise' = [NoPromise EXCEPT !.state = "pending"]
          /\ UNCHANGED response
  /\ UNCHANGED <<variant, url, env, chunks, fileExists, audioLen, transcription,
                 segments, gemini, tier, cleanedSegments>>

(***************************************************************************)
(* The media stream and the timer of the download.                         *)
(***************************************************************************)
\* a promise that could be settled again
Settle_Overwrite(p) == p

\* resolve / reject: only the first call settles the promise
Settle(p) == IF promise.state = "pending" THEN p ELSE promise

\* stream.on('data'): a chunk is pushed (buffer) or written to the file
StreamData ==
  /\ streamState = "open"
  /\ chunks < MaxChunks
  /\ chunks' = chunks + 1
  /\ fileExists' = (variant = "file")
  /\ UNCHANGED <<variant, url, env, pc, calls, streamState, timer, promise,
                 audioLen, transcription, segments, gemini, tier,
                 cleanedSegments, response>>

\* stream.on('end') of the buffer variant, stream.on('finish') of the file
\* variant: resolve
StreamEnd ==
  /\ \/ streamState = "open"
     \/ variant = "buffer" /\ streamState = "destroyed"
  /\ streamState' = "ended"
  /\ promise' = Settle([state |-> "resolved", length |-> chunks, message |-> ""])
  /\ fileExists' = IF variant = "file" /\ pc = "download" THEN TRUE ELSE fileExists
  /\ UNCHANGED <<variant, url, env, pc, calls, chunks, timer, audioLen,
                 transcription, segments, gemini, tier, cleanedSegments, response>>

\* stream.on('error'): reject(error)
StreamError ==
  /\ \/ streamState = "open"
     \/ variant = "buffer" /\ streamState = "destroyed"
  /\ \E m \in StreamErrors :
       promise' = Settle([state |-> "rejected", length |-> 0, message |-> m])
  /\ streamState' = "errored"
  /\ UNCHANGED <<variant, url, env, pc, calls, chunks, timer, fileExists, audioLen,
                 transcription, segments, gemini, tier, cleanedSegments, response>>

\* the 'error' event of the ytdl stream in the file variant: the listener of
\* line 28 is on the write stream that pipe() returns, the read stream has
\* none, so the error is not caught and the promise stays pending
ReadStreamError ==
  /\ variant = "file"
  /\ streamState = "open"
  /\ streamState' = "unhandled"
  /\ UNCHANGED <<variant, url, env, pc, calls, chunks, timer, promise, fileExists,
                 audioLen, transcription, segments, gemini, tier, cleanedSegments,
                 response>>

\* a timer callback that destroys the stream and does not reject
TimerFires_NoReject ==
  /\ timer = "armed"
  /\ timer' = "fired"
  /\ streamState' = IF streamState = "open" THEN "destroyed" ELSE streamState
  /\ UNCHANGED <<variant, url, env, pc, calls, chunks, promise, fileExists, audioLen,
                 transcription, segments, gemini, tier, cleanedSegments, response>>

\* the setTimeout callback of downloadAudioToBuffer; the timer is never cleared
TimerFires ==
  /\ timer = "armed"
  /\ timer' = "fired"
  /\ streamState' = IF streamState = "open" THEN "destroyed" ELSE streamState
  /\ promise' = Settle([state |-> "rejected", length |-> 0, message |-> TimeoutMessage])
  /\ UNCHANGED <<variant, url, env, pc, calls, chunks, fileExists, audioLen,
                 transcription, segments, gemini, tier, cleanedSegments, response>>

(***************************************************************************)
(* processYouTubeTranscript after each await.                              *)
(***************************************************************************)
\* the continuation going on to transcription whatever the promise settled with
AfterDownload_IgnoreFailure ==
  /\ pc = "download"
  /\ promise.state \in {"resolved", "rejected"}
  /\ pc' = "transcribe"
  /\ calls' = Append(calls, "deepgram")
  /\ audioLen' = promise.length
  /\ UNCHANGED <<variant, url, env, chunks, streamState, timer, promise, fileExists,
                 transcription, segments, gemini, tier, cleanedSegments, response>>

\* after await downloadAudio(...) / downloadAudioToBuffer(...)
AfterDownload ==
  /\ pc = "download"
  /\ promise.state \in {"resolved", "rejected"}
  /\ LET failure ==
           IF promise.state = "rejected" THEN promise.message
           ELSE IF variant = "buffer" /\ promise.length = 0 THEN EmptyBufferMessage
           ELSE IF variant = "file" /\ ~fileExists THEN NoFileMessage
           ELSE "ok"
     IN  IF failure # "ok"
         THEN /\ Return(FailureResult(failure))
              /\ UNCHANGED <<calls, audioLen>>
         ELSE /\ pc' = "transcribe"
              /\ calls' = Append(calls, "deepgram")
              /\ audioLen' = promise.length
              /\ UNCHANGED <<response, fileExists>>
  /\ UNCHANGED <<variant, url, env, chunks, streamState, timer, promise,
                 transcription, segments, gemini, tier, cleanedSegments>>

\* the message of the error transcribeWithDeepgram rejects with
TranscribeError(m) ==
  IF variant = "buffer" THEN "Deepgram transcription failed: " \o m ELSE m

\* the "Safety check for utterances" of each variant
NoUtterances(outcome) ==
  \/ outcome.kind = "noutterances"
  \/ variant = "buffer" /\ outcome.kind = "data" /\ Len(outcome.utterances) = 0

\* after await transcribeWithDeepgram(...), up to the call of
\* cleanTranscriptWithGemini
AfterTranscription ==
  /\ pc = "transcribe"
  /\ \E outcome \in DeepgramOutcomes :
       /\ transcription' = outcome
       /\ LET failure ==
                IF outcome.kind = "error" THEN TranscribeError(outcome.message)
                ELSE IF outcome.kind = "noresults" THEN NoResultsMessage
                ELSE IF NoUtterances(outcome) THEN NoUtterancesMessage
                ELSE "ok"
          IN  IF failure # "ok"
              THEN /\ Return(FailureResult(failure))
                   /\ UNCHANGED <<calls, segments>>
              ELSE /\ segments' = ToSegments(outcome.utterances)
                   /\ calls' = Append(calls, "gemini")
                   /\ pc' = "clean"
                   /\ UNCHANGED <<response, fileExists>>
  /\ UNCHANGED <<variant, url, env, chunks, streamState, timer, promise, audioLen,
                 gemini, tier, cleanedSegments>>

\* the logging loop kept in the buffer variant as well
LoggingThrows_BothVariants(cleaned) ==
  \E i \in DOMAIN cleaned : ~HasField(cleaned[i], "start") \/ ~HasField(cleaned[i], "end")

\* the file variant logs seg.start.toFixed(2) and seg.end.toFixed(2) of
\* every cleaned segment
LoggingThrows(cleaned) ==
  /\ variant = "file"
  /\ \E i \in DOMAIN cleaned : ~HasField(cleaned[i], "start") \/ ~HasField(cleaned[i], "end")

\* after the text-generation call settled: the rest of
\* cleanTranscriptWithGemini, the try/catch around it, the assembly of the
\* result and the response of GET
AfterCleanup ==
  /\ pc = "clean"
  /\ \E outcome \in GeminiOutcomes(segments) :
       LET r == cleanTranscriptWithGemini(segments, outcome)
           cleaned == IF r.threw THEN simpleCleanTranscript(segments) ELSE r.value
       IN  /\ gemini' = outcome
           /\ tier' = IF r.threw THEN "simple" ELSE r.tier
           /\ cleanedSegments' = cleaned
           /\ IF LoggingThrows(cleaned)
              THEN Return(FailureResult(ToFixedMessage))
              ELSE Return(SuccessResult(url.text, segments, cleaned, audioLen))
  /\ UNCHANGED <<variant, url, env, calls, chunks, streamState, timer, promise,
                 audioLen, transcription, segments>>

Next ==
  \/ GET
  \/ StreamData
  \/ StreamEnd
  \/ StreamError
  \/ ReadStreamError
  \/ TimerFires
  \/ AfterDownload
  \/ AfterTranscription
  \/ AfterCleanup

Spec == Init /\ [][Next]_vars

\* the timer of line 373 fires once armed, and the continuation of an await
\* runs once its promise is settled
FairSpec == Spec /\ WF_vars(TimerFires) /\ WF_vars(AfterDownload)

(***************************************************************************)
(* Properties.                                                             *)
(***************************************************************************)
\* C1..C7 are stated of the buffer variant (lines 323-673); C8..C10 of both
\* variants.
Done == pc = "done"
Succeeded ==
  variant = "buffer" /\ pc = "done" /\ response.status = 200 /\ response.body.success
CleanupReturned == variant = "buffer" /\ tier # "none"
Tier1Failed == tier \notin {"none", "ai"}

\* C1: for every outcome of the text-generation call,
\* cleanTranscriptWithGemini returns normally and the sequence it returns
\* has as many elements as there are input segments.
C1_LengthPreservedByGemini ==
  CleanupReturned =>
    /\ tier \in {"ai", "catch"}
    /\ Len(cleanedSegments) = Len(segments)

\* C2: whenever the Tier 1 attempt fails, the cleanedSegments of the success
\* Result are simpleCleanTranscript applied to the raw segments.
C2_FallbackIsSimpleClean ==
  (Succeeded /\ Tier1Failed) =>
    response.body.data.cleanedSegments = simpleCleanTranscript(segments)

\* C3: in every success Result the number of cleanedSegments equals the
\* number of raw segments, on the Tier 1 path and on the fallback path.
C3_CountPreserved ==
  Succeeded => Len(response.body.data.cleanedSegments) = Len(segments)

\* C4: in every success Result, cleanedSegments[i].start and .end equal
\* rawSegments[i].start and .end for every index i.
C4_TimestampsPreserved ==
  Succeeded =>
    LET cleaned == response.body.data.cleanedSegments
    IN  \A i \in DOMAIN cleaned :
          /\ i \in DOMAIN segments
          /\ HasField(cleaned[i], "start") /\ cleaned[i].start = segments[i].start
          /\ HasField(cleaned[i], "end") /\ cleaned[i].end = segments[i].end

\* C5: Tier 1 output is accepted only if every element yields start, end
\* and cleanedText; no returned cleanedSegments has an element whose
\* cleanedText (or start, or end) is undefined.
C5_NoUndefinedFields ==
  CleanupReturned =>
    \A i \in DOMAIN cleanedSegments :
      /\ HasField(cleanedSegments[i], "start")
      /\ HasField(cleanedSegments[i], "end")
      /\ HasField(cleanedSegments[i], "cleanedText")

\* C6: (buffer variant) once acquisition returned a non-empty buffer and
\* transcription returned at least one utterance, the request ends with
\* status 200 and success:true whatever the text-generation call did.
C6_CleanupNeverFailsRequest ==
  ( /\ variant = "buffer"
    /\ Done
    /\ audioLen > 0
    /\ transcription.kind = "data"
    /\ Len(transcription.utterances) > 0 )
  => /\ response.status = 200
     /\ response.body.success = TRUE

\* a request of the buffer variant that ended after a failed
\* text-generation call
C6_Witness ==
  /\ variant = "buffer"
  /\ Done
  /\ audioLen > 0
  /\ Len(segments) > 0
  /\ gemini.kind = "error"
  /\ response.status = 200

\* C7: in every success Result, totalDuration is 0 when cleanedSegments is
\* empty and otherwise the end of its last element, and segmentCount is the
\* length of cleanedSegments.
C7_DurationAndCountOfCleaned ==
  Succeeded =>
    LET data == response.body.data
        cleaned == data.cleanedSegments
    IN  /\ data.segmentCount = Len(cleaned)
        /\ IF cleaned = <<>> THEN data.totalDuration = 0
           ELSE /\ HasField(cleaned[Len(cleaned)], "end")
                /\ data.totalDuration = cleaned[Len(cleaned)].end

\* C8: a request whose url parameter is missing or does not have the
\* YouTube URL shape is answered with status 400 and success:false, and no
\* external call is ever started for it.
C8_BadUrlIs400 ==
  (url \notin ValidUrls) =>
    /\ calls = <<>>
    /\ streamState = "none" /\ timer = "unset"
    /\ Done => /\ response.status = 400
               /\ response.body.success = FALSE

\* an answered request whose url is present but is not a YouTube URL
C8_Witness ==
  /\ Done
  /\ url \in InvalidUrls /\ url.text # <<>>
  /\ response.status = 400

\* C9: a request with a valid YouTube URL but without the speech-recognition
\* key or without the text-generation key is answered with status 500 and
\* success:false, and no external call is started before that response.
C9_MissingKeyIs500 ==
  (url \in ValidUrls /\ (~env.DEEPGRAM_API_KEY \/ ~env.GEMINI_API_KEY)) =>
    /\ calls = <<>>
    /\ streamState = "none" /\ timer = "unset"
    /\ Done => /\ response.status = 500
               /\ response.body.success = FALSE

\* an answered request with a valid url and only the text-generation key
\* missing
C9_Witness ==
  /\ Done
  /\ url \in ValidUrls
  /\ env.DEEPGRAM_API_KEY /\ ~env.GEMINI_API_KEY
  /\ response.status = 500

\* C10: if the transcription result has zero utterances (the list is absent
\* or empty), the pipeline returns the 'No utterances' failure with status
\* 500 and the text-generation call is never made for that request.
C10_ZeroUtterancesFail ==
  ( \/ transcription.kind = "noutterances"
    \/ transcription.kind = "data" /\ Len(transcription.utterances) = 0 )
  => /\ "gemini" \notin Range(calls)
     /\ Done
     /\ response.status = 500
     /\ response.body.error = NoUtterancesMessage

\* C11: a failure of acquisition or of transcription aborts the pipeline:
\* no later stage is called, the response is 500 with success:false, and
\* its error is the message of the failing stage's error, unchanged.
C11_StageFailureAborts ==
  /\ promise.state = "rejected" =>
       /\ calls = <<"ytdl">>
       /\ Done => /\ response.status = 500
                  /\ response.body.success = FALSE
                  /\ response.body.error = promise.message
  /\ (variant = "buffer" /\ promise.state = "resolved" /\ promise.length = 0) =>
       /\ calls = <<"ytdl">>
       /\ Done => /\ response.status = 500
                  /\ response.body.success = FALSE
                  /\ response.body.error = EmptyBufferMessage
  /\ transcription.kind = "error" =>
       /\ calls = <<"ytdl", "deepgram">>
       /\ Done
       /\ response.status = 500
       /\ response.body.success = FALSE
       /\ response.body.error =
            IF variant = "buffer"
            THEN "Deepgram transcription failed: " \o transcription.message
            ELSE transcription.message

\* an answered request of the buffer variant whose transcription call failed
C11_Witness ==
  /\ Done
  /\ variant = "buffer"
  /\ transcription.kind = "error"
  /\ response.status = 500

\* C12: every invocation of GET that terminates returns a response with a
\* boolean success, status 200 exactly when success is true, and status 400
\* or 500 with an error string when it is false.
C12_WellFormedResponse ==
  Done =>
    /\ response.status \in {200, 400, 500}
    /\ response.body.success \in BOOLEAN
    /\ response.status = 200 <=> response.body.success
    /\ response.body.success => HasField(response.body, "data")
    /\ ~response.body.success =>
         /\ HasField(response.body, "error")
         /\ response.body.error # ""

\* an answered request that failed after its validation had passed
C12_Witness ==
  /\ Done
  /\ calls # <<>>
  /\ response.status = 500
  /\ ~response.body.success

\* C16: in a success Result the cleanedSegments carry originalText exactly
\* when the Tier 1 attempt failed; when it succeeded none carries it.
C16_OriginalTextTellsTier ==
  (Succeeded /\ response.body.data.cleanedSegments # <<>>) =>
    LET cleaned == response.body.data.cleanedSegments
    IN  /\ Tier1Failed => \A i \in DOMAIN cleaned : HasField(cleaned[i], "originalText")
        /\ tier = "ai" => \A i \in DOMAIN cleaned : ~HasField(cleaned[i], "originalText")

\* C17: the stages run in the order acquisition, transcription, cleanup:
\* the speech-recognition call starts only after acquisition resolved, the
\* text-generation call only after transcription resolved with utterances,
\* and each external call is made at most once.
C17_StagesInOrderOnce ==
  /\ calls \in { <<>>, <<"ytdl">>, <<"ytdl", "deepgram">>,
                 <<"ytdl", "deepgram", "gemini">> }
  /\ Len(calls) >= 2 =>
       /\ promise.state = "resolved"
       /\ variant = "buffer" => promise.length > 0
  /\ Len(calls) >= 3 => transcription.kind = "data"
  /\ Len(calls) < 3 => gemini.kind = "none"
  /\ Len(calls) < 2 => transcription.kind = "none"

\* a request that made all three calls
C17_Witness ==
  /\ Done
  /\ calls = <<"ytdl", "deepgram", "gemini">>
  /\ gemini.kind # "none"

\* C18: in the file variant the temporary audio file no longer exists when
\* processYouTubeTranscript has returned, on every path by which it returns.
C18_TempFileRemoved ==
  (variant = "file" /\ Done) => ~fileExists

\* a request of the file variant that wrote the file and then failed in
\* transcription
C18_Witness ==
  /\ variant = "file"
  /\ Done
  /\ chunks > 0
  /\ transcription.kind = "error"
  /\ ~fileExists

\* C19: the outcome of downloadAudioToBuffer is decided by the first of
\* 'end', 'error' and the timer callback and never changes afterwards; a
\* timer firing after 'end' does not fail the request, an 'end' or 'error'
\* after the timeout does not make it succeed.
C19_FirstEventDecides ==
  [][ /\ promise.state \in {"resolved", "rejected"} => promise' = promise
      /\ response # NoResponse => response' = response
      /\ (promise.state = "pending" /\ promise'.state = "resolved") =>
           streamState' = "ended"
      /\ (promise.state = "pending" /\ promise'.state = "rejected") =>
           \/ timer' = "fired" /\ timer = "armed" /\ promise'.message = TimeoutMessage
           \/ streamState' = "errored" /\ promise'.message \in StreamErrors
      /\ (pc = "download" /\ pc' = "transcribe") => promise.state = "resolved"
      /\ (pc = "download" /\ pc' = "done" /\ promise.state = "rejected") =>
           response'.body.error = promise.message
    ]_vars

\* the timer fired after 'end' had resolved the promise, and the request
\* succeeded
C19_Witness ==
  /\ variant = "buffer"
  /\ timer = "fired"
  /\ promise.state = "resolved"
  /\ Done
  /\ response.status = 200

\* an 'end' arrived after the timeout had rejected the promise
C19_LateEnd ==
  /\ variant = "buffer"
  /\ promise.state = "rejected"
  /\ promise.message = TimeoutMessage
  /\ streamState = "ended"

\* the ways an acquisition of the buffer variant can have ended
AcquisitionOver == variant = "buffer" /\ pc \in {"transcribe", "clean", "done"} /\ calls # <<>>
AcquisitionFailedWith(messages) ==
  /\ calls = <<"ytdl">>
  /\ pc = "done"
  /\ response.status = 500
  /\ response.body.error \in messages
AcquisitionSucceeded == Len(calls) >= 2 /\ promise.state = "resolved" /\ audioLen > 0
AcquisitionOutcomes ==
  << AcquisitionSucceeded,
     AcquisitionFailedWith({TimeoutMessage}),
     AcquisitionFailedWith(StreamErrors),
     AcquisitionFailedWith({EmptyBufferMessage}) >>

\* C13: every started acquisition of the buffer variant completes, given
\* that the timer fires; it ends in exactly one of success with a non-empty
\* buffer, the timeout failure, a stream error failure and the empty-result
\* failure, and it is the timeout failure when the stream neither ended nor
\* errored.
C13_AcquisitionCompletes ==
  /\ [](AcquisitionOver =>
          /\ Cardinality({k \in 1..4 : AcquisitionOutcomes[k]}) = 1
          /\ (pc = "done" /\ calls = <<"ytdl">> /\ streamState \in {"open", "destroyed"})
               => AcquisitionOutcomes[2])
  /\ (variant = "buffer" /\ pc = "download") ~> AcquisitionOver

\* an acquisition that ended in the timeout failure with the stream neither
\* ended nor errored
C13_Witness ==
  /\ AcquisitionOver
  /\ streamState = "destroyed"
  /\ AcquisitionFailedWith({TimeoutMessage})

\* position of the "]" that closes the bracket opened before position i,
\* depth brackets being open there (0 when there is none)
RECURSIVE MatchingClose(_, _, _)
MatchingClose(toks, i, depth) ==
  IF i > Len(toks) THEN 0
  ELSE IF toks[i] = LB THEN MatchingClose(toks, i + 1, depth + 1)
  ELSE IF toks[i] = RB
       THEN IF depth = 1 THEN i ELSE MatchingClose(toks, i + 1, depth - 1)
  ELSE MatchingClose(toks, i + 1, depth)

\* the first top-level balanced "[" ... "]" span of a text (<<>> when none)
FirstBalancedSpan(toks) ==
  LET lbs == {i \in DOMAIN toks : toks[i] = LB}
  IN  IF lbs = {} THEN <<>>
      ELSE LET first == CHOOSE i \in lbs : \A k \in lbs : i <= k
               close == MatchingClose(toks, first + 1, 1)
           IN  IF close = 0 THEN <<>> ELSE SubSeq(toks, first, close)

\* C14: when the response text holds a JSON array surrounded by prose, also
\* prose with "[" or "]" after the array, the extraction takes exactly the
\* first top-level balanced "[" ... "]" span and that array is what is
\* parsed and returned.
C14_FirstBalancedSpanParsed ==
  (CleanupReturned /\ gemini.kind = "text") =>
    LET span == FirstBalancedSpan(gemini.tokens)
        parsed == JSONparse(span)
    IN  ( /\ span # <<>>
          /\ parsed.ok
          /\ \A i \in DOMAIN parsed.v.array : ~IsNull(parsed.v.array[i]) )
        => /\ jsonMatch(gemini.tokens) = span
           /\ tier = "ai"
           /\ cleanedSegments = [i \in DOMAIN parsed.v.array |-> PickCleaned(parsed.v.array[i])]

(***************************************************************************)
(* simpleCleanTranscript on its own: no path of the handler reaches it, so *)
(* it is applied here to one-segment inputs drawn from bounded texts.      *)
(***************************************************************************)
MaxPieces == 3

tExample == <<"u","m"," ","s","o"," ","l","i","k","e"," ","I"," ","t","h","i","n","k",","," ","y","o","u"," ","k","n","o","w",","," ","i","t"," ","w","o","r","k","s">>
tExampleCleaned == <<"I"," ","t","h","i","n","k",","," ","i","t"," ","w","o","r","k","s">>

Pieces ==
  { <<"u","m"," ">>, <<"Y","o","u"," ">>, <<"k","n","o","w">>,
    <<"s","o"," ">>, <<" ",","," ">>, <<"i","t"," ","w","o","r","k","s">> }

RECURSIVE Flatten(_)
Flatten(ps) == IF ps = <<>> THEN <<>> ELSE ps[1] \o Flatten(Tail(ps))

CleanInputs ==
  {tExample} \cup { Flatten(ps) : ps \in UNION { [1..n -> Pieces] : n \in 0..MaxPieces } }

InitClean ==
  /\ variant \in {"file", "buffer"}
  /\ url \in ValidUrls
  /\ env = [DEEPGRAM_API_KEY |-> TRUE, GEMINI_API_KEY |-> TRUE]
  /\ pc = "simple"
  /\ calls = <<>>
  /\ chunks = 0
  /\ streamState = "none"
  /\ timer = "unset"
  /\ promise = NoPromise
  /\ fileExists = FALSE
  /\ audioLen = 0
  /\ transcription = [kind |-> "none"]
  /\ \E text \in CleanInputs : segments = <<[start |-> 0, end |-> 1, text |-> text]>>
  /\ gemini = [kind |-> "none"]
  /\ tier = "none"
  /\ cleanedSegments = <<>>
  /\ response = NoResponse

\* cleanedSegments = simpleCleanTranscript(segments)
SimpleClean ==
  /\ pc = "simple"
  /\ cleanedSegments' = simpleCleanTranscript(segments)
  /\ tier' = "simple"
  /\ pc' = "cleaned"
  /\ UNCHANGED <<variant, url, env, calls, chunks, streamState, timer, promise,
                 fileExists, audioLen, transcription, segments, gemini, response>>

NextClean == SimpleClean

SpecClean == InitClean /\ [][NextClean]_vars

\* filler k stands in t at position i as a standalone word
FillerAt(t, i, k) ==
  /\ MatchesAt(t, i, fillerWords[k])
  /\ WordBoundaryAt(t, i)
  /\ WordBoundaryAt(t, i + Len(fillerWords[k]))

\* what C15 says of a cleaned text
WellCleaned(t) ==
  /\ \A k \in DOMAIN fillerWords : \A i \in DOMAIN t : ~FillerAt(t, i, k)
  /\ \A i \in DOMAIN t : IsSpace(t[i]) =>
       /\ t[i] = " "
       /\ i > 1 /\ i < Len(t)
       /\ ~IsSpace(t[i + 1])
       /\ ~IsPunct(t[i + 1])
  /\ t # <<>> => t[1] \notin Range(LowerLetters)

\* C15: for every input text, simpleCleanTranscript yields a cleanedText
\* with none of the filler phrases as standalone words, single spaces only,
\* no whitespace before , . ! ? and a capital first letter; the example
\* "um so like I think, you know, it works" cleans to "I think, it works".
C15_SimpleCleanIsClean ==
  pc = "cleaned" =>
    /\ WellCleaned(cleanedSegments[1].cleanedText)
    /\ segments[1].text = tExample => cleanedSegments[1].cleanedText = tExampleCleaned

\* the example alone
C15_Example ==
  (pc = "cleaned" /\ segments[1].text = tExample) =>
    cleanedSegments[1].cleanedText = tExampleCleaned

\* the general part alone
C15_General ==
  pc = "cleaned" => WellCleaned(cleanedSegments[1].cleanedText)

====
